---- MODULE Spec2Model ----
(***************************************************************************)
(* A model of guardrails: the ratchet rule (src/rules/ratchet.rs), the     *)
(* rule factory (src/rules/factory.rs), the scan pipeline (src/scan.rs)    *)
(* and the git diff index (src/git_diff.rs).                               *)
(*                                                                         *)
(* Strings are sequences of bytes, each byte written as a one-character    *)
(* string, so that offsets, slices and searches are computed as the code   *)
(* computes them.  Option<T> is a sequence of length 0 (None) or 1 (Some). *)
(***************************************************************************)
EXTENDS Integers, Sequences, FiniteSets, TLC

VARIABLES
    \* RatchetRule::new / check_file
    rconfig,      \* the RuleConfig handed to RatchetRule::new
    rcontent,     \* the file content handed to check_file
    rrule,        \* None before construction, then Some(Result<RatchetRule>)
    rviolations,  \* None before check_file ran, then Some(Vec<Violation>)
    \* parse_hunk_header
    hin,          \* the parts the hunk header line is written from
    hout,         \* None before the call, then Some(Option<RangeInclusive>)
    \* parse_diff and DiffInfo
    ddiff,        \* the diff: a sequence of markers, hunk headers and body lines
    dinfo,        \* None before parse_diff, then Some(DiffInfo)
    dquery,       \* None, or the last has_file / has_line lookup and its answers
    \* resolve_base_ref
    base_ref,     \* the ref asked for
    refs,         \* the refs `git rev-parse --verify` resolves in the repository
    gpc,          \* position in resolve_base_ref
    probes,       \* the ref_exists calls made so far, in order
    fetches,      \* the number of `git fetch` calls made so far
    gresult,      \* None while running, then Some(Result<String>)
    \* run_scan
    cfg,          \* the config file: readable?, parsable?, exclude patterns, [[rule]] tables
    targets,      \* target_paths
    spc,          \* position in run_scan
    exclude_set,  \* the compiled exclude GlobSet
    rules,        \* Vec<(Box<dyn Rule>, Option<GlobSet>)>
    tidx,         \* number of targets walked so far
    files,        \* Vec<PathBuf>, in discovery order
    fidx,         \* number of entries of files handled so far
    violations,   \* Vec<Violation>
    files_scanned,
    sresult,      \* None while running, then Some(Result<ScanResult, ScanError>)
    read_ok,      \* history: the indices of the entries of files that were read
    vorigin,      \* history: for each violation, the entry and the rule it came from
    forigin,      \* history: for each entry of files, the index of its target
    checks,       \* history: the check_file calls made, as (entry, rule index)
    \* check_file in literal mode, one evaluation of the loop condition at a time
    lconfig,      \* the RuleConfig handed to RatchetRule::new
    lcontent,     \* the file content
    lpc,          \* "call", "new", "lines", "done", "rejected" or "panic"
    lrule,        \* None, then Some(RatchetRule) once constructed
    llines,       \* ctx.content.lines(), once check_file is entered
    lline_idx,    \* line_idx: the 0-based index of the line being searched
    lsearch_start,\* search_start: the cursor in that line
    literations,  \* history: the executions of the loop body on that line
    lviolations   \* violations: the Vec<Violation> check_file fills

ratchetVars == <<rconfig, rcontent, rrule, rviolations>>
hunkVars == <<hin, hout>>
diffVars == <<ddiff, dinfo, dquery>>
refVars == <<base_ref, refs, gpc, probes, fetches, gresult>>

scanVars == <<cfg, targets, spc, exclude_set, rules, tidx, files, fidx, violations,
              files_scanned, sresult, read_ok, vorigin, forigin, checks>>

loopVars == <<lconfig, lcontent, lpc, lrule, llines, lline_idx, lsearch_start, literations,
              lviolations>>

vars == <<ratchetVars, hunkVars, diffVars, refVars, scanVars, loopVars>>

-----------------------------------------------------------------------------
(* Bounds of the model *)

MaxPatLen == 2
MaxContentLen == 3
MaxCount == 1

-----------------------------------------------------------------------------
(* Option and Result *)

None == <<>>
Some(x) == <<x>>
IsSome(o) == Len(o) = 1
Unwrap(o) == o[1]

Ok(v) == [ok |-> TRUE, val |-> v]
Err(e) == [ok |-> FALSE, err |-> e]

\* All sequences over S of length at most n.
SeqsUpTo(S, n) == UNION {[1..k -> S] : k \in 0..n}

-----------------------------------------------------------------------------
(* Byte strings *)

NL == "\n"
CR == "\r"

\* s[from..] with a 0-based byte offset, as Rust's &line[search_start..]
SliceFrom(s, from) == SubSeq(s, from + 1, Len(s))

\* s[..to] with a 0-based exclusive end
SliceTo(s, to) == SubSeq(s, 1, to)

\* pat occurs in s at 0-based byte offset p
OccursAt(s, pat, p) ==
    /\ p + Len(pat) <= Len(s)
    /\ \A k \in 1..Len(pat) : s[p + k] = pat[k]

\* str::find(&str): the byte offset of the first occurrence, or None
StrFind(s, pat) ==
    LET hits == {p \in 0..Len(s) : OccursAt(s, pat, p)}
    IN  IF hits = {} THEN None
        ELSE Some(CHOOSE p \in hits : \A q \in hits : p <= q)

\* str::lines(): split after every "\n" (split_inclusive), drop that "\n" and a
\* "\r" right before it; a last piece without "\n" is kept as it is, and there
\* is no empty last piece.
RECURSIVE Lines(_)
Lines(s) ==
    IF s = <<>> THEN <<>>
    ELSE LET nl == StrFind(s, <<NL>>)
         IN  IF ~IsSome(nl) THEN <<s>>
             ELSE LET raw  == SliceTo(s, Unwrap(nl))
                      line == IF Len(raw) > 0 /\ raw[Len(raw)] = CR
                              THEN SliceTo(raw, Len(raw) - 1) ELSE raw
                  IN  <<line>> \o Lines(SliceFrom(s, Unwrap(nl) + 1))

-----------------------------------------------------------------------------
(* The regex crate, restricted to patterns built from the bytes of            *)
(* PatternBytes: "a" and "\n" are literals, "." is any byte but "\n", and "(" *)
(* opens a group that nothing closes, which Regex::new rejects.               *)

RegexCompiles(pattern) == \A k \in 1..Len(pattern) : pattern[k] # "("

AtomMatches(atom, byte) == IF atom = "." THEN byte # NL ELSE atom = byte

RegexMatchesAt(re, s, p) ==
    /\ p + Len(re) <= Len(s)
    /\ \A k \in 1..Len(re) : AtomMatches(re[k], s[p + k])

\* Regex::find_iter: successive leftmost matches, each search starting where
\* the previous match ended; returns the 0-based start offsets.
RECURSIVE RegexFindIter(_, _, _)
RegexFindIter(re, s, from) ==
    LET hits == {p \in from..Len(s) : RegexMatchesAt(re, s, p)}
    IN  IF hits = {} THEN <<>>
        ELSE LET p == CHOOSE h \in hits : \A q \in hits : h <= q
             IN  <<p>> \o RegexFindIter(re, s, p + Len(re))

-----------------------------------------------------------------------------
(* RuleConfig and RatchetRule::new *)

MissingField(id, field) == [kind |-> "MissingField", id |-> id, field |-> field]
InvalidRegex(id, cause) == [kind |-> "InvalidRegex", id |-> id, cause |-> cause]

\* RatchetRule::new without the .filter(|p| !p.is_empty()) of line 27
RatchetNewKeepsEmpty(config) ==
    IF ~IsSome(config.pattern)
    THEN Err(MissingField(config.id, "pattern"))
    ELSE IF ~IsSome(config.max_count)
    THEN Err(MissingField(config.id, "max_count"))
    ELSE IF config.regex /\ ~RegexCompiles(Unwrap(config.pattern))
    THEN Err(InvalidRegex(config.id, "unclosed group"))
    ELSE Ok([id             |-> config.id,
             severity       |-> config.severity,
             glob           |-> config.glob,
             pattern        |-> Unwrap(config.pattern),
             max_count      |-> Unwrap(config.max_count),
             compiled_regex |-> IF config.regex
                                THEN Some(Unwrap(config.pattern)) ELSE None])

RatchetNew(config) ==
    IF ~IsSome(config.pattern) \/ Unwrap(config.pattern) = <<>>
    THEN Err(MissingField(config.id, "pattern"))
    ELSE IF ~IsSome(config.max_count)
    THEN Err(MissingField(config.id, "max_count"))
    ELSE IF config.regex /\ ~RegexCompiles(Unwrap(config.pattern))
    THEN Err(InvalidRegex(config.id, "unclosed group"))
    ELSE Ok([id             |-> config.id,
             severity       |-> config.severity,
             glob           |-> config.glob,
             pattern        |-> Unwrap(config.pattern),
             max_count      |-> Unwrap(config.max_count),
             compiled_regex |-> IF config.regex
                                THEN Some(Unwrap(config.pattern)) ELSE None])

max_count(rule) == rule.max_count
pattern(rule) == rule.pattern

-----------------------------------------------------------------------------
(* RatchetRule::check_file *)

\* a Violation whose column is the 0-based offset itself
ViolationZeroBasedColumn(rule, file, line_idx, col, line) ==
    [rule_id     |-> rule.id,
     severity    |-> rule.severity,
     file        |-> file,
     line        |-> Some(line_idx + 1),
     column      |-> Some(col),
     source_line |-> Some(line)]

Violation(rule, file, line_idx, col, line) ==
    [rule_id     |-> rule.id,
     severity    |-> rule.severity,
     file        |-> file,
     line        |-> Some(line_idx + 1),
     column      |-> Some(col + 1),
     source_line |-> Some(line)]

\* the literal-mode loop with the cursor moved one byte past the match start
RECURSIVE LiteralScanOverlapping(_, _, _, _, _)
LiteralScanOverlapping(rule, file, line_idx, line, search_start) ==
    LET pos == StrFind(SliceFrom(line, search_start), rule.pattern)
    IN  IF ~IsSome(pos) THEN <<>>
        ELSE LET col == search_start + Unwrap(pos)
             IN  <<Violation(rule, file, line_idx, col, line)>>
                 \o LiteralScanOverlapping(rule, file, line_idx, line, col + 1)

\* The literal-mode loop of one line: search_start is the cursor.
RECURSIVE LiteralScan(_, _, _, _, _)
LiteralScan(rule, file, line_idx, line, search_start) ==
    LET pos == StrFind(SliceFrom(line, search_start), rule.pattern)
    IN  IF ~IsSome(pos) THEN <<>>
        ELSE LET col == search_start + Unwrap(pos)
             IN  <<Violation(rule, file, line_idx, col, line)>>
                 \o LiteralScan(rule, file, line_idx, line, col + Len(rule.pattern))

RegexScan(rule, file, line_idx, line) ==
    LET starts == RegexFindIter(Unwrap(rule.compiled_regex), line, 0)
    IN  [k \in 1..Len(starts) |-> Violation(rule, file, line_idx, starts[k], line)]

CheckLine(rule, file, line_idx, line) ==
    IF IsSome(rule.compiled_regex)
    THEN RegexScan(rule, file, line_idx, line)
    ELSE LiteralScan(rule, file, line_idx, line, 0)

RECURSIVE CheckLines(_, _, _, _)
CheckLines(rule, file, lines, line_idx) ==
    IF line_idx >= Len(lines) THEN <<>>
    ELSE CheckLine(rule, file, line_idx, lines[line_idx + 1])
         \o CheckLines(rule, file, lines, line_idx + 1)

check_file(rule, ctx) == CheckLines(rule, ctx.file_path, Lines(ctx.content), 0)

-----------------------------------------------------------------------------
(* Inputs of the ratchet specification *)

PatternBytes == {"a", ".", "(", NL}
ContentBytes == {"a", "b", NL}

TodoPattern == <<"T", "O", "D", "O">>
TodoContent ==
    <<"/", "/", " ", "T", "O", "D", "O", " ", "f", "i", "x", " ", "t", "h", "i",
      "s", " ", "T", "O", "D", "O", " ", "a", "n", "d", " ", "t", "h", "a", "t",
      " ", "T", "O", "D", "O">>

RatchetInputs ==
    (SeqsUpTo(PatternBytes, MaxPatLen) \X SeqsUpTo(ContentBytes, MaxContentLen))
        \cup {<<TodoPattern, TodoContent>>}

RatchetConfigs(pat) ==
    [id        : {"test-ratchet"},
     severity  : {"Error"},
     glob      : {None},
     pattern   : {None, Some(pat)},
     max_count : {None} \cup {Some(n) : n \in 0..MaxCount},
     regex     : BOOLEAN]

\* the parts of the state a specification does not use stay as they start
RatchetIdle == rconfig = <<>> /\ rcontent = <<>> /\ rrule = <<>> /\ rviolations = <<>>
HunkIdle == hin = <<>> /\ hout = <<>>
DiffIdle == ddiff = <<>> /\ dinfo = <<>> /\ dquery = <<>>
RefIdle ==
    /\ base_ref = <<>> /\ refs = {} /\ gpc = "idle"
    /\ probes = <<>> /\ fetches = 0 /\ gresult = <<>>

ScanIdle ==
    /\ cfg = <<>> /\ targets = <<>> /\ spc = "idle" /\ exclude_set = <<>>
    /\ rules = <<>> /\ tidx = 0 /\ files = <<>> /\ fidx = 0 /\ violations = <<>>
    /\ files_scanned = 0 /\ sresult = <<>> /\ read_ok = <<>> /\ vorigin = <<>>
    /\ forigin = <<>> /\ checks = <<>>

LoopIdle ==
    /\ lconfig = <<>> /\ lcontent = <<>> /\ lpc = "idle" /\ lrule = <<>> /\ llines = <<>>
    /\ lline_idx = 0 /\ lsearch_start = 0 /\ literations = 0 /\ lviolations = <<>>

RatchetInit ==
    /\ HunkIdle /\ DiffIdle /\ RefIdle /\ ScanIdle /\ LoopIdle
    /\ \E in \in RatchetInputs :
          /\ rconfig \in RatchetConfigs(in[1])
          /\ rcontent = in[2]
    /\ rrule = None
    /\ rviolations = None

\* RatchetRule::new(&config)
New ==
    /\ rrule = None
    /\ rrule' = Some(RatchetNew(rconfig))
    /\ UNCHANGED <<rconfig, rcontent, rviolations, hunkVars, diffVars, refVars, scanVars, loopVars>>

\* rule.check_file(&ctx) on the constructed rule
CheckFile ==
    /\ IsSome(rrule)
    /\ Unwrap(rrule).ok
    /\ rviolations = None
    /\ rviolations' = Some(check_file(Unwrap(rrule).val,
                                      [file_path |-> "test.ts", content |-> rcontent]))
    /\ UNCHANGED <<rconfig, rcontent, rrule, hunkVars, diffVars, refVars, scanVars, loopVars>>

RatchetNext == New \/ CheckFile

SpecRatchet == RatchetInit /\ [][RatchetNext]_vars

-----------------------------------------------------------------------------
(* Properties of RatchetRule *)

RuleBuilt == IsSome(rrule) /\ Unwrap(rrule).ok
Checked == RuleBuilt /\ IsSome(rviolations)
TheRule == Unwrap(rrule).val
TheViolations == Unwrap(rviolations)
LiteralMode == ~IsSome(TheRule.compiled_regex)

\* Occurrences of pat in line counted greedily from the left: an occurrence at
\* the cursor is counted and the cursor jumps past it, otherwise the cursor
\* moves one byte on.
RECURSIVE GreedyCount(_, _, _)
GreedyCount(line, pat, i) ==
    IF i + Len(pat) > Len(line) THEN 0
    ELSE IF OccursAt(line, pat, i) THEN 1 + GreedyCount(line, pat, i + Len(pat))
    ELSE GreedyCount(line, pat, i + 1)

RECURSIVE SumGreedy(_, _)
SumGreedy(lines, pat) ==
    IF lines = <<>> THEN 0
    ELSE GreedyCount(Head(lines), pat, 0) + SumGreedy(Tail(lines), pat)

\* C3: in literal mode check_file returns as many violations as there are
\* greedy left-to-right non-overlapping occurrences of the pattern, summed over
\* the lines of the content; every match lies inside one line, which holds no
\* line break; "aa" on "aaa" is one violation.
C3_LiteralCountIsGreedyPerLine ==
    (Checked /\ LiteralMode) =>
        /\ Len(TheViolations) = SumGreedy(Lines(rcontent), TheRule.pattern)
        /\ \A k \in 1..Len(TheViolations) :
              LET v == TheViolations[k]
                  src == Unwrap(v.source_line)
              IN  /\ \A j \in 1..Len(src) : src[j] # NL
                  /\ OccursAt(src, TheRule.pattern, Unwrap(v.column) - 1)
        /\ (TheRule.pattern = <<"a", "a">> /\ rcontent = <<"a", "a", "a">>)
              => Len(TheViolations) = 1

C3_Witness ==
    /\ Checked /\ LiteralMode
    /\ TheRule.pattern = <<"a", "a">>
    /\ rcontent = <<"a", "a", "a">>
    /\ Len(TheViolations) = 1

MatchAt(rule, line, p) ==
    IF IsSome(rule.compiled_regex)
    THEN RegexMatchesAt(Unwrap(rule.compiled_regex), line, p)
    ELSE OccursAt(line, rule.pattern, p)

\* C4: in both modes every violation has line = 0-based line index + 1 and
\* column = byte offset of the match start in that line + 1 (both >= 1), and
\* the violations come in increasing line order and, within a line, in
\* increasing column order; "TODO" on the line of the unit test gives columns
\* 4, 18 and 32.
C4_LineAndColumnOneBased ==
    Checked =>
        LET vs == TheViolations
            lines == Lines(rcontent)
        IN  /\ \A k \in 1..Len(vs) :
                  LET l == Unwrap(vs[k].line)
                      c == Unwrap(vs[k].column)
                  IN  /\ l >= 1 /\ c >= 1
                      /\ l <= Len(lines)
                      /\ vs[k].source_line = Some(lines[l])
                      /\ MatchAt(TheRule, lines[l], c - 1)
            /\ \A k \in 1..Len(vs), m \in 1..Len(vs) :
                  k < m =>
                      \/ Unwrap(vs[k].line) < Unwrap(vs[m].line)
                      \/ /\ Unwrap(vs[k].line) = Unwrap(vs[m].line)
                         /\ Unwrap(vs[k].column) < Unwrap(vs[m].column)
            /\ (rcontent = TodoContent /\ TheRule.pattern = TodoPattern)
                  => [k \in 1..Len(vs) |-> Unwrap(vs[k].column)] = <<4, 18, 32>>

C4_Witness ==
    /\ Checked /\ ~LiteralMode
    /\ \E k \in 1..Len(TheViolations) :
          /\ TheViolations[k].line = Some(2)
          /\ TheViolations[k].column = Some(2)

\* C5: RatchetRule::new fails with MissingField(id, "pattern") when the
\* pattern is absent or empty; with the pattern present, it fails with
\* MissingField(id, "max_count") when max_count is absent; with both present,
\* it fails with InvalidRegex(id, cause) when the regex flag is set and the
\* pattern does not compile; otherwise it succeeds, also for max_count = 0,
\* and pattern() and max_count() return the configured values.
C5_NewOutcome ==
    IsSome(rrule) =>
        LET r == Unwrap(rrule)
            c == rconfig
        IN  IF c.pattern = None \/ c.pattern = Some(<<>>)
            THEN ~r.ok /\ r.err = MissingField(c.id, "pattern")
            ELSE IF c.max_count = None
            THEN ~r.ok /\ r.err = MissingField(c.id, "max_count")
            ELSE IF c.regex /\ ~RegexCompiles(Unwrap(c.pattern))
            THEN ~r.ok /\ r.err.kind = "InvalidRegex" /\ r.err.id = c.id
            ELSE /\ r.ok
                 /\ Some(pattern(r.val)) = c.pattern
                 /\ Some(max_count(r.val)) = c.max_count

C5_Witness ==
    /\ RuleBuilt
    /\ rconfig.max_count = Some(0)
    /\ max_count(TheRule) = 0
    /\ pattern(TheRule) = Unwrap(rconfig.pattern)

-----------------------------------------------------------------------------
(* RatchetRule::check_file in literal mode, step by step *)

MaxIterations == 4

LoopPatternBytes == {"a", "b"}

LoopConfigs ==
    [id        : {"test-ratchet"},
     severity  : {"Error"},
     glob      : {None},
     pattern   : {None} \cup {Some(pat) : pat \in SeqsUpTo(LoopPatternBytes, MaxPatLen)},
     max_count : {None, Some(0)},
     regex     : {FALSE}]

LoopInit ==
    /\ RatchetIdle /\ HunkIdle /\ DiffIdle /\ RefIdle /\ ScanIdle
    /\ lconfig = <<>>
    /\ lcontent = <<>>
    /\ lpc = "call"
    /\ lrule = None
    /\ llines = <<>>
    /\ lline_idx = 0
    /\ lsearch_start = 0
    /\ literations = 0
    /\ lviolations = <<>>

\* the caller's RuleConfig and the content of the file it has read
LoopCall ==
    /\ lpc = "call"
    /\ lconfig' \in LoopConfigs
    /\ lcontent' \in SeqsUpTo(ContentBytes, MaxContentLen)
    /\ lpc' = "new"
    /\ UNCHANGED <<lrule, llines, lline_idx, lsearch_start, literations, lviolations>>
    /\ UNCHANGED <<ratchetVars, hunkVars, diffVars, refVars, scanVars>>

\* RatchetRule::new(&config): a rule, on which check_file is entered (line 80:
\* ctx.content.lines()), or no rule to call check_file on
LoopNew ==
    /\ lpc = "new"
    /\ LET built == RatchetNew(lconfig)
       IN  IF built.ok
           THEN lrule' = Some(built.val) /\ llines' = Lines(lcontent) /\ lpc' = "lines"
           ELSE lrule' = lrule /\ llines' = llines /\ lpc' = "rejected"
    /\ UNCHANGED <<lconfig, lcontent, lline_idx, lsearch_start, literations, lviolations>>
    /\ UNCHANGED <<ratchetVars, hunkVars, diffVars, refVars, scanVars>>

\* lines 100-115, one evaluation of `while let Some(pos) =
\* line[search_start..].find(pattern)`: slicing beyond the end of the line
\* panics; a match pushes a violation and moves the cursor past it; no match
\* ends the loop of this line and the next line starts with the cursor at 0.
\* The loop body runs at most MaxIterations times on a line.
LoopStep ==
    /\ lpc = "lines"
    /\ lline_idx < Len(llines)
    /\ literations < MaxIterations
    /\ LET rule == Unwrap(lrule)
           line == llines[lline_idx + 1]
           pos  == StrFind(SliceFrom(line, lsearch_start), rule.pattern)
       IN  IF lsearch_start > Len(line)
           THEN /\ lpc' = "panic"
                /\ UNCHANGED <<lline_idx, lsearch_start, literations, lviolations>>
           ELSE IF IsSome(pos)
           THEN LET col == lsearch_start + Unwrap(pos)
                IN  /\ lviolations' = Append(lviolations,
                                             Violation(rule, "test.ts", lline_idx, col, line))
                    /\ lsearch_start' = col + Len(rule.pattern)
                    /\ literations' = literations + 1
                    /\ UNCHANGED <<lpc, lline_idx>>
           ELSE /\ lline_idx' = lline_idx + 1
                /\ lsearch_start' = 0
                /\ literations' = 0
                /\ UNCHANGED <<lpc, lviolations>>
    /\ UNCHANGED <<lconfig, lcontent, lrule, llines>>
    /\ UNCHANGED <<ratchetVars, hunkVars, diffVars, refVars, scanVars>>

\* line 119: the lines are used up and check_file returns violations
LoopReturn ==
    /\ lpc = "lines"
    /\ lline_idx = Len(llines)
    /\ lpc' = "done"
    /\ UNCHANGED <<lconfig, lcontent, lrule, llines, lline_idx, lsearch_start, literations,
                   lviolations>>
    /\ UNCHANGED <<ratchetVars, hunkVars, diffVars, refVars, scanVars>>

LoopNext == LoopCall \/ LoopNew \/ LoopStep \/ LoopReturn

\* check_file is one sequential call: a step that can be taken is taken
SpecLiteralLoop == LoopInit /\ [][LoopNext]_vars /\ WF_vars(LoopNext)

LoopLine == llines[lline_idx + 1]

\* the cursor and the count of loop-body runs stay within the line
CursorWithinLine ==
    /\ lpc # "panic"
    /\ IsSome(lrule) => Unwrap(lrule).pattern # <<>>
    /\ (lpc = "lines" /\ lline_idx < Len(llines)) =>
          /\ lsearch_start <= Len(LoopLine)
          /\ literations * Len(Unwrap(lrule).pattern) <= lsearch_start
          /\ literations * Len(Unwrap(lrule).pattern) <= Len(LoopLine)
    /\ lpc = "done" =>
          lviolations = check_file(Unwrap(lrule),
                                   [file_path |-> "test.ts", content |-> lcontent])

\* a run of the loop body moves the cursor forward
CursorAdvances ==
    (literations' = literations + 1) => (lsearch_start' > lsearch_start)

\* C16: a constructed rule has a non-empty pattern; in the literal loop every
\* match moves the cursor strictly forward, the cursor never passes the end of
\* the line, the loop body runs at most floor(len(line) / len(pattern)) times on
\* a line; and check_file returns (with the violations of the whole content)
\* for every content, unless no rule was constructed.
C16_LiteralScanTerminates ==
    /\ []CursorWithinLine
    /\ [][CursorAdvances]_vars
    /\ <>(lpc \in {"done", "rejected"})

\* "a" on the line "aaa": three runs of the loop body, the most a line of
\* three bytes allows, and the cursor stands at the end of the line
C16_Witness ==
    /\ lpc = "lines"
    /\ Unwrap(lrule).pattern = <<"a">>
    /\ lline_idx < Len(llines)
    /\ LoopLine = <<"a", "a", "a">>
    /\ literations = 3
    /\ lsearch_start = Len(LoopLine)

-----------------------------------------------------------------------------
(* git_diff.rs: parse_hunk_header *)

MaxNewStart == 15
MaxNewCount == 7

DigitChars == <<"0", "1", "2", "3", "4", "5", "6", "7", "8", "9">>
Digits == {DigitChars[k] : k \in 1..10}
DigitVal(c) == (CHOOSE k \in 1..10 : DigitChars[k] = c) - 1

\* the decimal numeral of n, as git prints it
RECURSIVE Dec(_)
Dec(n) == IF n < 10 THEN <<DigitChars[n + 1]>>
          ELSE Dec(n \div 10) \o <<DigitChars[(n % 10) + 1]>>

RECURSIVE DecValue(_)
DecValue(s) == IF s = <<>> THEN 0
               ELSE DecValue(SliceTo(s, Len(s) - 1)) * 10 + DigitVal(s[Len(s)])

\* str::parse::<usize>(): an optional "+" and then one or more decimal digits;
\* anything else is an error.  (A numeral beyond usize::MAX is an error too; the
\* line numbers of the model stay far below it.)
ParseUsize(s) ==
    LET body == IF Len(s) > 0 /\ s[1] = "+" THEN Tail(s) ELSE s
    IN  IF body = <<>> \/ \E k \in 1..Len(body) : body[k] \notin Digits
        THEN None
        ELSE Some(DecValue(body))

\* str::find with a char or closure pattern: the offset of the first byte in
\* chars, or None
FindAny(s, chars) ==
    LET hits == {p \in 0..(Len(s) - 1) : s[p + 1] \in chars}
    IN  IF hits = {} THEN None
        ELSE Some(CHOOSE p \in hits : \A q \in hits : p <= q)

\* start..=end
RangeInclusive(start, end) == [start |-> start, end |-> end]
Contains(r, x) == r.start <= x /\ x <= r.end

\* parse_hunk_header with the range ending at start + count
parse_hunk_header_end_off_by_one(line) ==
    LET plus == FindAny(line, {"+"})
    IN  IF ~IsSome(plus) THEN None
        ELSE
        LET after_plus == SliceFrom(line, Unwrap(plus) + 1)
            sep        == FindAny(after_plus, {" ", "@"})
            end        == IF IsSome(sep) THEN Unwrap(sep) ELSE Len(after_plus)
            range_str  == SliceTo(after_plus, end)
            comma      == FindAny(range_str, {","})
        IN  IF IsSome(comma)
            THEN LET start == ParseUsize(SliceTo(range_str, Unwrap(comma)))
                     count == ParseUsize(SliceFrom(range_str, Unwrap(comma) + 1))
                 IN  IF ~IsSome(start) THEN None
                     ELSE IF ~IsSome(count) THEN None
                     ELSE IF Unwrap(count) = 0 THEN None
                     ELSE Some(RangeInclusive(Unwrap(start),
                                              Unwrap(start) + Unwrap(count)))
            ELSE LET start == ParseUsize(range_str)
                 IN  IF ~IsSome(start) THEN None
                     ELSE Some(RangeInclusive(Unwrap(start), Unwrap(start)))

parse_hunk_header(line) ==
    LET plus == FindAny(line, {"+"})
    IN  IF ~IsSome(plus) THEN None
        ELSE
        LET after_plus == SliceFrom(line, Unwrap(plus) + 1)
            sep        == FindAny(after_plus, {" ", "@"})
            end        == IF IsSome(sep) THEN Unwrap(sep) ELSE Len(after_plus)
            range_str  == SliceTo(after_plus, end)
            comma      == FindAny(range_str, {","})
        IN  IF IsSome(comma)
            THEN LET start == ParseUsize(SliceTo(range_str, Unwrap(comma)))
                     count == ParseUsize(SliceFrom(range_str, Unwrap(comma) + 1))
                 IN  IF ~IsSome(start) THEN None
                     ELSE IF ~IsSome(count) THEN None
                     ELSE IF Unwrap(count) = 0 THEN None
                     ELSE Some(RangeInclusive(Unwrap(start),
                                              Unwrap(start) + Unwrap(count) - 1))
            ELSE LET start == ParseUsize(range_str)
                 IN  IF ~IsSome(start) THEN None
                     ELSE Some(RangeInclusive(Unwrap(start), Unwrap(start)))

\* The header line git writes for a hunk:
\* "@@ -<old>[,<oldcount>] +<new>[,<newcount>] @@[context]"
FormatHunk(h) ==
    <<"@", "@", " ", "-">> \o Dec(h.old)
    \o (IF IsSome(h.oldcount) THEN <<",">> \o Dec(Unwrap(h.oldcount)) ELSE <<>>)
    \o <<" ", "+">> \o Dec(h.new)
    \o (IF IsSome(h.newcount) THEN <<",">> \o Dec(Unwrap(h.newcount)) ELSE <<>>)
    \o <<" ", "@", "@">> \o h.context

HunkContexts == {<<>>, <<" ", "f", "n", " ", "m", "a", "i", "n", "(", ")", " ", "{">>, <<" ", "a", "+", "9", ",", "9", " ", "@", "@">>}

HunkInputs ==
    [old      : {1, 10},
     oldcount : {None, Some(0), Some(3), Some(5)},
     new      : 0..MaxNewStart,
     newcount : {None} \cup {Some(n) : n \in 0..MaxNewCount},
     context  : HunkContexts]

HunkInit ==
    /\ RatchetIdle /\ DiffIdle /\ RefIdle /\ ScanIdle /\ LoopIdle
    /\ hin \in HunkInputs
    /\ hout = None

\* parse_hunk_header(line) on the header written from hin
ParseHunk ==
    /\ hout = None
    /\ hout' = Some(parse_hunk_header(FormatHunk(hin)))
    /\ UNCHANGED <<hin, ratchetVars, diffVars, refVars, scanVars, loopVars>>

HunkNext == ParseHunk

SpecHunk == HunkInit /\ [][HunkNext]_vars

\* C6: for a header "@@ -<old>[,<oldcount>] +<new>[,<newcount>] @@[context]"
\* parse_hunk_header returns [new, new + newcount - 1] when newcount >= 1,
\* [new, new] when newcount is omitted and no range when newcount = 0, whatever
\* the old side and the context are.
C6_HunkRange ==
    IsSome(hout) =>
        Unwrap(hout) =
            IF ~IsSome(hin.newcount) THEN Some(RangeInclusive(hin.new, hin.new))
            ELSE IF Unwrap(hin.newcount) = 0 THEN None
            ELSE Some(RangeInclusive(hin.new, hin.new + Unwrap(hin.newcount) - 1))

C6_Witness ==
    /\ FormatHunk(hin) = <<"@", "@", " ", "-", "1", "0", ",", "3", " ", "+", "1", "5", ",", "4", " ", "@", "@">>
    /\ hout = Some(Some(RangeInclusive(15, 18)))

-----------------------------------------------------------------------------
(* git_diff.rs: parse_diff and DiffInfo *)

MaxDiffLines == 3
MaxQueryLine == 6

StartsWith(s, prefix) == Len(prefix) <= Len(s) /\ SliceTo(s, Len(prefix)) = prefix

\* str::strip_prefix
StripPrefix(s, prefix) ==
    IF StartsWith(s, prefix) THEN Some(SliceFrom(s, Len(prefix))) ELSE None

NewPathMarker == <<"+", "+", "+", " ", "b", "/">>

\* HashMap::entry(path).or_insert_with(Vec::new) / or_default()
EntryOrDefault(map, path) ==
    IF path \in DOMAIN map THEN map
    ELSE [p \in DOMAIN map \cup {path} |-> IF p = path THEN <<>> ELSE map[p]]

\* one iteration of the loop over diff_text.lines()
ParseDiffLine(st, line) ==
    LET path == StripPrefix(line, NewPathMarker)
    IN  IF IsSome(path)
        THEN [current_file  |-> Some(Unwrap(path)),
              changed_lines |-> EntryOrDefault(st.changed_lines, Unwrap(path))]
        ELSE IF StartsWith(line, <<"@", "@">>) /\ IsSome(st.current_file)
        THEN LET range == parse_hunk_header(line)
                 file  == Unwrap(st.current_file)
                 map   == EntryOrDefault(st.changed_lines, file)
             IN  IF IsSome(range)
                 THEN [st EXCEPT !.changed_lines =
                          [map EXCEPT ![file] = Append(@, Unwrap(range))]]
                 ELSE st
        ELSE st

RECURSIVE ParseDiffLines(_, _)
ParseDiffLines(st, lines) ==
    IF lines = <<>> THEN st
    ELSE ParseDiffLines(ParseDiffLine(st, Head(lines)), Tail(lines))

\* the empty HashMap
EmptyMap == [p \in {} |-> <<>>]

parse_diff(diff_text) ==
    [changed_lines |->
        ParseDiffLines([current_file |-> None, changed_lines |-> EmptyMap],
                       Lines(diff_text)).changed_lines]

has_file(info, path) == path \in DOMAIN info.changed_lines

\* has_line with a half-open range test
has_line_exclusive_end(info, path, line) ==
    IF path \in DOMAIN info.changed_lines
    THEN \E k \in 1..Len(info.changed_lines[path]) :
            LET r == info.changed_lines[path][k]
            IN  r.start <= line /\ line < r.end
    ELSE FALSE

has_line(info, path, line) ==
    IF path \in DOMAIN info.changed_lines
    THEN \E k \in 1..Len(info.changed_lines[path]) :
            Contains(info.changed_lines[path][k], line)
    ELSE FALSE

\* The diff as git writes it: new-path markers, hunk headers and body lines.
DiffPaths == {<<"f">>, <<"g">>}
QueryPaths == DiffPaths \cup {<<"h">>}

DiffHunks ==
    {[old |-> 1, oldcount |-> Some(2), new |-> n[1], newcount |-> n[2], context |-> <<>>] :
        n \in {<<2, None>>, <<2, Some(0)>>, <<2, Some(2)>>, <<4, Some(2)>>}}

\* the text of a changed source line: plain, beginning with "++ b/", and
\* beginning with "@"
BodyTexts ==
    {<<"x">>,
     <<"+", "+", " ", "b", "/", "g">>,
     <<"@", "@", " ", "-", "1", " ", "+", "9", " ", "@", "@">>}

DiffEntries ==
    [kind : {"marker"}, path : DiffPaths]
        \cup [kind : {"hunk"}, h : DiffHunks]
        \cup [kind : {"body"}, sign : {"+"}, text : BodyTexts]
        \cup [kind : {"body"}, sign : {"-"}, text : {<<"x">>}]

RenderEntry(e) ==
    IF e.kind = "marker" THEN NewPathMarker \o e.path
    ELSE IF e.kind = "hunk" THEN FormatHunk(e.h)
    ELSE <<e.sign>> \o e.text

RECURSIVE RenderDiff(_)
RenderDiff(entries) ==
    IF entries = <<>> THEN <<>>
    ELSE RenderEntry(Head(entries)) \o <<NL>> \o RenderDiff(Tail(entries))

DiffInit ==
    /\ RatchetIdle /\ HunkIdle /\ RefIdle /\ ScanIdle /\ LoopIdle
    /\ ddiff \in SeqsUpTo(DiffEntries, MaxDiffLines)
    /\ dinfo = None
    /\ dquery = None

\* parse_diff(&diff_text) on the output of git diff
ParseDiff ==
    /\ dinfo = None
    /\ dinfo' = Some(parse_diff(RenderDiff(ddiff)))
    /\ UNCHANGED <<ddiff, dquery, ratchetVars, hunkVars, refVars, scanVars, loopVars>>

\* info.has_file(&path) and info.has_line(&path, line)
Lookup ==
    /\ IsSome(dinfo)
    /\ \E path \in QueryPaths, line \in 0..MaxQueryLine :
          dquery' = Some([path     |-> path,
                          line     |-> line,
                          has_file |-> has_file(Unwrap(dinfo), path),
                          has_line |-> has_line(Unwrap(dinfo), path, line)])
    /\ UNCHANGED <<ddiff, dinfo, ratchetVars, hunkVars, refVars, scanVars, loopVars>>

DiffNext == ParseDiff \/ Lookup

SpecDiff == DiffInit /\ [][DiffNext]_vars

\* the lines some recorded range of path covers, endpoints included
CoveredLines(info, path) ==
    IF path \in DOMAIN info.changed_lines
    THEN UNION {info.changed_lines[path][k].start .. info.changed_lines[path][k].end :
                    k \in 1..Len(info.changed_lines[path])}
    ELSE {}

\* C7: has_line(path, line) is true exactly when a range recorded for that
\* very path covers line, endpoints included; for a path the index does not
\* hold it is false; has_line implies has_file.
C7_HasLineIffCovered ==
    IsSome(dquery) =>
        LET q == Unwrap(dquery)
            info == Unwrap(dinfo)
        IN  /\ q.has_line = (q.line \in CoveredLines(info, q.path))
            /\ (q.path \notin DOMAIN info.changed_lines) => ~q.has_line
            /\ q.has_line => q.has_file
            /\ q.has_file = (q.path \in DOMAIN info.changed_lines)

\* a lookup of the last line of a two-line range, with another file in the index
C7_Witness ==
    /\ IsSome(dquery)
    /\ Unwrap(dquery).has_line
    /\ Unwrap(dquery).path = <<"f">>
    /\ Unwrap(dquery).line = 5
    /\ Unwrap(dinfo).changed_lines[<<"f">>] = <<RangeInclusive(4, 5)>>
    /\ <<"g">> \in DOMAIN Unwrap(dinfo).changed_lines

-----------------------------------------------------------------------------
(* git_diff.rs: resolve_base_ref *)

\* format!("origin/{}", base_ref); a ref is the sequence of its "/" parts
with_origin(ref) == <<"origin">> \o ref

BaseRefs == {<<"main">>, <<"dev">>, <<"origin", "main">>}
AllRefs == BaseRefs \cup {with_origin(r) : r \in BaseRefs}

BaseRefNotFound(ref) == [kind |-> "BaseRefNotFound", ref |-> ref]

\* `git rev-parse --verify r` succeeds
ref_exists(r) == r \in refs

RefInit ==
    /\ RatchetIdle /\ HunkIdle /\ DiffIdle /\ ScanIdle /\ LoopIdle
    /\ base_ref \in BaseRefs
    /\ refs \in SUBSET AllRefs
    /\ gpc = "try_ref"
    /\ probes = <<>>
    /\ fetches = 0
    /\ gresult = None

Probed(r) == Append(probes, [ref |-> r, hit |-> ref_exists(r)])

\* lines 123-125: the ref as given
TryRef ==
    /\ gpc = "try_ref"
    /\ probes' = Probed(base_ref)
    /\ IF ref_exists(base_ref)
       THEN gresult' = Some(Ok(base_ref)) /\ gpc' = "done"
       ELSE gresult' = gresult /\ gpc' = "try_origin"
    /\ UNCHANGED <<base_ref, refs, fetches, ratchetVars, hunkVars, diffVars, scanVars, loopVars>>

\* lines 128-131: with the origin/ prefix
TryOrigin ==
    /\ gpc = "try_origin"
    /\ probes' = Probed(with_origin(base_ref))
    /\ IF ref_exists(with_origin(base_ref))
       THEN gresult' = Some(Ok(with_origin(base_ref))) /\ gpc' = "done"
       ELSE gresult' = gresult /\ gpc' = "fetch"
    /\ UNCHANGED <<base_ref, refs, fetches, ratchetVars, hunkVars, diffVars, scanVars, loopVars>>

\* lines 134-136: git fetch --depth=1 origin <ref>; its outcome is dropped.  A
\* failed fetch changes nothing; a successful one may make the remote-tracking
\* ref, the ref itself (a commit id), or both resolvable.
Fetch ==
    /\ gpc = "fetch"
    /\ fetches' = fetches + 1
    /\ \E got \in SUBSET {base_ref, with_origin(base_ref)} : refs' = refs \cup got
    /\ gpc' = "retry_origin"
    /\ UNCHANGED <<base_ref, probes, gresult, ratchetVars, hunkVars, diffVars, scanVars, loopVars>>

\* the retry of origin/<ref> that goes on to the next probe even on a hit
RetryOriginFallsThrough ==
    /\ gpc = "retry_origin"
    /\ probes' = Probed(with_origin(base_ref))
    /\ gresult' = gresult /\ gpc' = "retry_ref"
    /\ UNCHANGED <<base_ref, refs, fetches, ratchetVars, hunkVars, diffVars, scanVars, loopVars>>

\* lines 138-140: origin/<ref> again
RetryOrigin ==
    /\ gpc = "retry_origin"
    /\ probes' = Probed(with_origin(base_ref))
    /\ IF ref_exists(with_origin(base_ref))
       THEN gresult' = Some(Ok(with_origin(base_ref))) /\ gpc' = "done"
       ELSE gresult' = gresult /\ gpc' = "retry_ref"
    /\ UNCHANGED <<base_ref, refs, fetches, ratchetVars, hunkVars, diffVars, scanVars, loopVars>>

\* lines 142-146: the ref as given again, else BaseRefNotFound
RetryRef ==
    /\ gpc = "retry_ref"
    /\ probes' = Probed(base_ref)
    /\ IF ref_exists(base_ref)
       THEN gresult' = Some(Ok(base_ref))
       ELSE gresult' = Some(Err(BaseRefNotFound(base_ref)))
    /\ gpc' = "done"
    /\ UNCHANGED <<base_ref, refs, fetches, ratchetVars, hunkVars, diffVars, scanVars, loopVars>>

RefNext == TryRef \/ TryOrigin \/ Fetch \/ RetryOrigin \/ RetryRef

SpecRef == RefInit /\ [][RefNext]_vars

ProbeOrder == <<base_ref, with_origin(base_ref), with_origin(base_ref), base_ref>>

\* C8: the probes are made in the order ref, origin/ref, (fetch) origin/ref,
\* ref; the first hit is returned and is the last probe made; the one fetch
\* happens exactly between probes 2 and 3, whatever it achieves; the call fails,
\* with BaseRefNotFound(ref as given), exactly when all four probes missed.
C8_ProbeOrder ==
    /\ Len(probes) <= 4
    /\ \A k \in 1..Len(probes) :
          /\ probes[k].ref = ProbeOrder[k]
          /\ probes[k].hit =>
                /\ k = Len(probes)
                /\ gresult = Some(Ok(probes[k].ref))
    /\ fetches = (IF Len(probes) >= 3 \/ gpc = "retry_origin" THEN 1 ELSE 0)
    /\ fetches >= 1 => (Len(probes) >= 2 /\ ~probes[1].hit /\ ~probes[2].hit)
    /\ (gpc = "done") = IsSome(gresult)
    /\ gpc = "done" =>
          /\ Len(probes) >= 1
          /\ Unwrap(gresult).ok = probes[Len(probes)].hit
          /\ ~Unwrap(gresult).ok =>
                /\ Len(probes) = 4
                /\ Unwrap(gresult).err = BaseRefNotFound(base_ref)

\* the fetch made origin/<ref> resolvable and the third probe returned it
C8_Witness ==
    /\ gpc = "done"
    /\ Len(probes) = 3
    /\ fetches = 1
    /\ ~probes[1].hit /\ ~probes[2].hit /\ probes[3].hit
    /\ gresult = Some(Ok(with_origin(base_ref)))

-----------------------------------------------------------------------------
(* factory.rs, toml_config.rs: building a rule from a [[rule]] table *)

UnknownRuleType(t) == [kind |-> "UnknownRuleType", rule_type |-> t]
BuildError(e) == [kind |-> "BuildError", cause |-> e]

\* TomlRule::to_rule_config: the fields TomlRule holds; `accepted` stands for
\* allowed_classes and token_map, by whether the rule kind's constructor takes
\* them.  A pattern or max_count key of the table is no field of TomlRule and
\* is dropped.
to_rule_config(toml_rule) ==
    [id       |-> toml_rule.id,
     severity |-> toml_rule.severity,
     glob     |-> toml_rule.glob,
     accepted |-> toml_rule.accepted]

\* TailwindDarkModeRule::new and TailwindThemeTokensRule::new
TailwindNew(kind, config) ==
    IF config.accepted
    THEN Ok([kind |-> kind, id |-> config.id, severity |-> config.severity,
             glob |-> config.glob])
    ELSE Err(MissingField(config.id, "token_map"))

\* build_rule: `?` turns a RuleBuildError into FactoryError::BuildError
build_rule(rule_type, config) ==
    IF rule_type = "tailwind-dark-mode" \/ rule_type = "tailwind-theme-tokens"
    THEN LET built == TailwindNew(rule_type, config)
         IN  IF built.ok THEN built ELSE Err(BuildError(built.err))
    ELSE Err(UnknownRuleType(rule_type))

\* Rule::file_glob
file_glob(rule) == rule.glob

-----------------------------------------------------------------------------
(* The file tree run_scan walks: paths are sequences of their components *)

MaxTargets == 2
MaxRules == 2

ProjDir == <<"proj">>
VendorDir == <<"proj", "vendor">>
FileA == <<"proj", "a.ts">>
FileB == <<"proj", "vendor", "b.ts">>
FileC == <<"c.bin">>

AllFiles == {FileA, FileB, FileC}
TargetPaths == {ProjDir, VendorDir, FileA, FileC, <<"nowhere">>}

\* Path::is_file
is_file(path) == path \in AllFiles

IsPrefix(pre, path) == Len(pre) <= Len(path) /\ SubSeq(path, 1, Len(pre)) = pre

\* the path handed to the exclude test as it is, not made relative to the target
strip_prefix_keeps_target(path, target) == path

\* Path::strip_prefix(target).unwrap_or(&path)
strip_prefix(path, target) ==
    IF IsPrefix(target, path) THEN SubSeq(path, Len(target) + 1, Len(path)) ELSE path

\* Path::file_name
file_name(path) == <<path[Len(path)]>>

\* the files WalkDir::new(target) yields, in one of the orders the directory
\* listing may have; a path that does not exist yields only errors
FilesUnder(target) == {f \in AllFiles : IsPrefix(target, f) /\ f # target}

WalkOrders(target) ==
    LET S == FilesUnder(target)
    IN  {o \in [1..Cardinality(S) -> S] : \A i, j \in 1..Cardinality(S) : o[i] = o[j] => i = j}

Extension(name) ==
    IF name = "a.ts" \/ name = "b.ts" THEN "ts"
    ELSE IF name = "c.bin" THEN "bin"
    ELSE ""

\* Glob patterns: "*.<arg>" (kind ext; `*` crosses "/"), "<arg>/**" (kind
\* under), "<arg>" without wildcard (kind name), "[" (kind bad: no closing
\* bracket, which Glob::new rejects).
GlobValid(g) == g.kind # "bad"

GlobMatches(g, path) ==
    IF g.kind = "ext" THEN Len(path) >= 1 /\ Extension(path[Len(path)]) = g.arg
    ELSE IF g.kind = "under" THEN Len(path) >= 2 /\ path[1] = g.arg
    ELSE IF g.kind = "name" THEN path = <<g.arg>>
    ELSE FALSE

\* GlobSet::is_match
is_match(glob_set, path) == \E k \in 1..Len(glob_set) : GlobMatches(glob_set[k], path)

ScanError(kind, cause) == [kind |-> kind, cause |-> cause]

\* build_glob_set leaving out the patterns Glob::new rejects
build_glob_set_drops_invalid(patterns) == Ok(SelectSeq(patterns, GlobValid))

\* build_glob_set: the first pattern Glob::new rejects ends it
build_glob_set(patterns) ==
    LET bad == {k \in 1..Len(patterns) : ~GlobValid(patterns[k])}
    IN  IF bad = {} THEN Ok(patterns)
        ELSE Err(ScanError("GlobParse", patterns[CHOOSE k \in bad : \A j \in bad : k <= j]))

\* What the rule kinds other than the ratchet report for the files of the
\* tree: each check is a function of the rule kind and the file's content.
TailwindHits(kind, path) ==
    IF kind = "tailwind-dark-mode"
    THEN (IF path = FileA THEN 2 ELSE IF path = FileC THEN 1 ELSE 0)
    ELSE (IF path = FileC THEN 0 ELSE 1)

TailwindCheckFile(rule, ctx) ==
    [j \in 1..TailwindHits(rule.kind, ctx.file_path) |->
        [rule_id     |-> rule.id,
         severity    |-> rule.severity,
         file        |-> ctx.file_path,
         line        |-> Some(j),
         column      |-> Some(1),
         source_line |-> None]]

\* rule.check_file(&ctx) through the Rule trait object
Rule_check_file(rule, ctx) ==
    IF "compiled_regex" \in DOMAIN rule
    THEN check_file(rule, ctx)
    ELSE TailwindCheckFile(rule, ctx)

FileContent(path) ==
    IF path = FileA THEN <<"a", "a", NL, "a">>
    ELSE IF path = FileB THEN <<"b", "a">>
    ELSE <<"a">>

-----------------------------------------------------------------------------
(* scan.rs: run_scan *)

\* the per-rule filter testing the glob against the full path only
GlobSkipsUnlessFullPath(rule_glob, file_path) ==
    /\ IsSome(rule_glob)
    /\ ~is_match(Unwrap(rule_glob), file_path)

\* lines 112-118: a rule with a glob is skipped for a file when the glob matches
\* neither the file's path nor its bare file name
GlobSkips(rule_glob, file_path) ==
    /\ IsSome(rule_glob)
    /\ ~is_match(Unwrap(rule_glob), file_path)
    /\ ~is_match(Unwrap(rule_glob), file_name(file_path))

\* the rule loop run from the last declared rule to the first
RECURSIVE RunRulesReversed(_, _, _)
RunRulesReversed(rs, ctx, from_idx) ==
    IF from_idx > Len(rs) THEN <<>>
    ELSE LET rule      == rs[from_idx][1]
             rule_glob == rs[from_idx][2]
             skip      == GlobSkips(rule_glob, ctx.file_path)
             found     == IF skip THEN <<>> ELSE Rule_check_file(rule, ctx)
         IN  RunRulesReversed(rs, ctx, from_idx + 1)
             \o [k \in 1..Len(found) |-> <<from_idx, found[k]>>]

\* lines 110-122 for one file: every rule in turn, skipped when its glob
\* matches neither the path nor the bare file name; from_idx is the 1-based
\* index of the next rule.  Returns the pairs <<rule index, violation>>.
RECURSIVE RunRules(_, _, _)
RunRules(rs, ctx, from_idx) ==
    IF from_idx > Len(rs) THEN <<>>
    ELSE LET rule      == rs[from_idx][1]
             rule_glob == rs[from_idx][2]
             skip      == GlobSkips(rule_glob, ctx.file_path)
             found     == IF skip THEN <<>> ELSE Rule_check_file(rule, ctx)
         IN  [k \in 1..Len(found) |-> <<from_idx, found[k]>>]
             \o RunRules(rs, ctx, from_idx + 1)

\* line 120: the rules whose check_file the loop calls for one file, by index,
\* in the order of the calls
RulesChecked(rs, file_path) ==
    SelectSeq([i \in 1..Len(rs) |-> i], LAMBDA i : ~GlobSkips(rs[i][2], file_path))

ExcludeLists ==
    {<<>>,
     <<[kind |-> "under", arg |-> "vendor"]>>,
     <<[kind |-> "ext", arg |-> "ts"]>>,
     <<[kind |-> "under", arg |-> "vendor"], [kind |-> "bad", arg |-> "["]>>}

\* the [[rule]] tables a config may hold; the id is set by position
RuleTable(rule_type, glob, accepted, pat, max) ==
    [rule_type |-> rule_type, severity |-> "Error", glob |-> glob,
     accepted |-> accepted, pattern |-> pat, max_count |-> max]

RuleTables ==
    {RuleTable("tailwind-dark-mode", None, TRUE, None, None),
     RuleTable("tailwind-dark-mode", Some([kind |-> "name", arg |-> "a.ts"]), TRUE, None, None),
     RuleTable("tailwind-theme-tokens", Some([kind |-> "under", arg |-> "proj"]), TRUE, None, None),
     RuleTable("tailwind-theme-tokens", None, FALSE, None, None),
     RuleTable("tailwind-dark-mode", Some([kind |-> "bad", arg |-> "["]), TRUE, None, None),
     RuleTable("ratchet", None, TRUE, Some(<<"a">>), Some(1)),
     RuleTable("ratchet", None, TRUE, Some(<<"a">>), Some(5)),
     RuleTable("no-such-rule", None, TRUE, None, None)}

RuleIds == <<"r1", "r2", "r3", "r4">>

WithIds(tables) ==
    [i \in 1..Len(tables) |->
        [id        |-> RuleIds[i],
         rule_type |-> tables[i].rule_type,
         severity  |-> tables[i].severity,
         glob      |-> tables[i].glob,
         accepted  |-> tables[i].accepted,
         pattern   |-> tables[i].pattern,
         max_count |-> tables[i].max_count]]

ScanInit ==
    /\ RatchetIdle /\ HunkIdle /\ DiffIdle /\ RefIdle /\ LoopIdle
    /\ \E state \in {"ok", "unreadable", "malformed"},
          exclude \in ExcludeLists,
          tables \in SeqsUpTo(RuleTables, MaxRules) :
          cfg = [state |-> state, exclude |-> exclude, rule |-> WithIds(tables)]
    /\ targets \in SeqsUpTo(TargetPaths, MaxTargets)
    /\ spc = "load"
    /\ exclude_set = None
    /\ rules = <<>>
    /\ tidx = 0
    /\ files = <<>>
    /\ fidx = 0
    /\ violations = <<>>
    /\ files_scanned = 0
    /\ sresult = None
    /\ read_ok = <<>>
    /\ vorigin = <<>>
    /\ forigin = <<>>
    /\ checks = <<>>

Fail(e) == sresult' = Some(Err(e)) /\ spc' = "done"

\* lines 40-41: fs::read_to_string(config_path)?, toml::from_str(..)?
LoadConfig ==
    /\ spc = "load"
    /\ IF cfg.state = "unreadable" THEN Fail(ScanError("ConfigRead", "io"))
       ELSE IF cfg.state = "malformed" THEN Fail(ScanError("ConfigParse", "toml"))
       ELSE spc' = "exclude" /\ sresult' = sresult
    /\ UNCHANGED <<cfg, targets, exclude_set, rules, tidx, files, fidx, violations,
                   files_scanned, read_ok, vorigin, forigin, checks>>
    /\ UNCHANGED <<ratchetVars, hunkVars, diffVars, refVars, loopVars>>

\* line 47: build_glob_set(&toml_config.guardrails.exclude)?
BuildExcludeSet ==
    /\ spc = "exclude"
    /\ LET built == build_glob_set(cfg.exclude)
       IN  IF built.ok
           THEN exclude_set' = Some(built.val) /\ spc' = "rules" /\ sresult' = sresult
           ELSE exclude_set' = exclude_set /\ Fail(built.err)
    /\ UNCHANGED <<cfg, targets, rules, tidx, files, fidx, violations,
                   files_scanned, read_ok, vorigin, forigin, checks>>
    /\ UNCHANGED <<ratchetVars, hunkVars, diffVars, refVars, loopVars>>

\* lines 51-68, one iteration: build the next declared rule and its glob
BuildRule ==
    /\ spc = "rules"
    /\ Len(rules) < Len(cfg.rule)
    /\ LET toml_rule   == cfg.rule[Len(rules) + 1]
           rule_config == to_rule_config(toml_rule)
           built       == build_rule(toml_rule.rule_type, rule_config)
       IN  IF ~built.ok
           THEN rules' = rules /\ Fail(ScanError("RuleFactory", built.err))
           ELSE LET rule == built.val
                    pat  == file_glob(rule)
                IN  IF IsSome(pat) /\ ~GlobValid(Unwrap(pat))
                    THEN rules' = rules
                         /\ Fail(ScanError("GlobParse", Unwrap(pat)))
                    ELSE /\ rules' = Append(rules,
                                <<rule, IF IsSome(pat) THEN Some(<<Unwrap(pat)>>) ELSE None>>)
                         /\ spc' = spc /\ sresult' = sresult
    /\ UNCHANGED <<cfg, targets, exclude_set, tidx, files, fidx, violations,
                   files_scanned, read_ok, vorigin, forigin, checks>>
    /\ UNCHANGED <<ratchetVars, hunkVars, diffVars, refVars, loopVars>>

\* lines 74-92, one iteration: a file target is pushed as it is; anything else
\* is walked, and the walked files whose path relative to the target matches
\* the exclude set are left out
WalkTarget ==
    /\ spc = "rules"
    /\ Len(rules) = Len(cfg.rule)
    /\ tidx < Len(targets)
    /\ LET target == targets[tidx + 1]
       IN  IF is_file(target)
           THEN files' = Append(files, target)
           ELSE \E walk \in WalkOrders(target) :
                   files' = files \o SelectSeq(walk,
                       LAMBDA path : ~is_match(Unwrap(exclude_set), strip_prefix(path, target)))
    /\ tidx' = tidx + 1
    /\ forigin' = forigin \o [k \in 1..(Len(files') - Len(files)) |-> tidx + 1]
    /\ UNCHANGED <<cfg, targets, spc, exclude_set, rules, fidx, violations,
                   files_scanned, sresult, read_ok, vorigin, checks>>
    /\ UNCHANGED <<ratchetVars, hunkVars, diffVars, refVars, loopVars>>

\* the file loop with files_scanned += 1 placed before the read
ScanFileCountsBeforeRead ==
    /\ spc = "rules"
    /\ Len(rules) = Len(cfg.rule)
    /\ tidx = Len(targets)
    /\ fidx < Len(files)
    /\ fidx' = fidx + 1
    /\ files_scanned' = files_scanned + 1
    /\ \/ UNCHANGED <<violations, read_ok, vorigin, checks>>
       \/ LET file_path == files[fidx + 1]
              ctx       == [file_path |-> file_path, content |-> FileContent(file_path)]
              found     == RunRules(rules, ctx, 1)
              called    == RulesChecked(rules, file_path)
          IN  /\ violations' = violations \o [k \in 1..Len(found) |-> found[k][2]]
              /\ read_ok' = Append(read_ok, fidx + 1)
              /\ vorigin' = vorigin \o
                    [k \in 1..Len(found) |-> [entry |-> fidx + 1, rule |-> found[k][1]]]
              /\ checks' = checks \o
                    [k \in 1..Len(called) |-> [entry |-> fidx + 1, rule |-> called[k]]]
    /\ UNCHANGED <<cfg, targets, spc, exclude_set, rules, tidx, files, sresult, forigin>>
    /\ UNCHANGED <<ratchetVars, hunkVars, diffVars, refVars, loopVars>>

\* lines 98-123, one iteration: read the file (an unreadable one is skipped),
\* count it, run the rules on it
ScanFile ==
    /\ spc = "rules"
    /\ Len(rules) = Len(cfg.rule)
    /\ tidx = Len(targets)
    /\ fidx < Len(files)
    /\ fidx' = fidx + 1
    /\ \/ \* Err(_) => continue
          UNCHANGED <<violations, files_scanned, read_ok, vorigin, checks>>
       \/ \* Ok(c)
          LET file_path == files[fidx + 1]
              ctx       == [file_path |-> file_path, content |-> FileContent(file_path)]
              found     == RunRules(rules, ctx, 1)
              called    == RulesChecked(rules, file_path)
          IN  /\ files_scanned' = files_scanned + 1
              /\ violations' = violations \o [k \in 1..Len(found) |-> found[k][2]]
              /\ read_ok' = Append(read_ok, fidx + 1)
              /\ vorigin' = vorigin \o
                    [k \in 1..Len(found) |-> [entry |-> fidx + 1, rule |-> found[k][1]]]
              /\ checks' = checks \o
                    [k \in 1..Len(called) |-> [entry |-> fidx + 1, rule |-> called[k]]]
    /\ UNCHANGED <<cfg, targets, spc, exclude_set, rules, tidx, files, sresult, forigin>>
    /\ UNCHANGED <<ratchetVars, hunkVars, diffVars, refVars, loopVars>>

\* lines 125-129: Ok(ScanResult { violations, files_scanned, rules_loaded })
Finish ==
    /\ spc = "rules"
    /\ Len(rules) = Len(cfg.rule)
    /\ tidx = Len(targets)
    /\ fidx = Len(files)
    /\ sresult' = Some(Ok([violations    |-> violations,
                           files_scanned |-> files_scanned,
                           rules_loaded  |-> Len(rules)]))
    /\ spc' = "done"
    /\ UNCHANGED <<cfg, targets, exclude_set, rules, tidx, files, fidx, violations,
                   files_scanned, read_ok, vorigin, forigin, checks>>
    /\ UNCHANGED <<ratchetVars, hunkVars, diffVars, refVars, loopVars>>

ScanNext == LoadConfig \/ BuildExcludeSet \/ BuildRule \/ WalkTarget \/ ScanFile \/ Finish

SpecScan == ScanInit /\ [][ScanNext]_vars

-----------------------------------------------------------------------------
(* Properties of run_scan *)

ScanDone == spc = "done"
ScanOk == ScanDone /\ Unwrap(sresult).ok
TheResult == Unwrap(sresult).val

\* the declared rules that are ratchet rules
RatchetDecls == {i \in 1..Len(cfg.rule) : cfg.rule[i].rule_type = "ratchet"}

\* a config every step of which is to succeed: readable, parsable, valid
\* globs, and every [[rule]] table one its rule kind accepts
Accepted(t) ==
    \/ /\ t.rule_type \in {"tailwind-dark-mode", "tailwind-theme-tokens"}
       /\ t.accepted
    \/ /\ t.rule_type = "ratchet"
       /\ IsSome(t.pattern) /\ Unwrap(t.pattern) # <<>>
       /\ IsSome(t.max_count)

ConfigSound ==
    /\ cfg.state = "ok"
    /\ \A k \in 1..Len(cfg.exclude) : GlobValid(cfg.exclude[k])
    /\ \A i \in 1..Len(cfg.rule) :
          /\ Accepted(cfg.rule[i])
          /\ IsSome(cfg.rule[i].glob) => GlobValid(Unwrap(cfg.rule[i].glob))

WithRuleId(vs, id) == SelectSeq(vs, LAMBDA v : v.rule_id = id)

\* C1: a scan of a sound config returns a result in which, for every ratchet
\* rule R with found = the number of violations R produced over all files, R's
\* violations are all present when found > max_count and all absent when
\* found <= max_count, and ratchet_counts[R] = (found, max_count) either way.
C1_RatchetGate ==
    (ScanDone /\ ConfigSound) =>
        /\ Unwrap(sresult).ok
        /\ \A i \in RatchetDecls :
              LET id       == cfg.rule[i].id
                  max      == Unwrap(cfg.rule[i].max_count)
                  produced == WithRuleId(violations, id)
                  reported == WithRuleId(TheResult.violations, id)
                  found    == Len(produced)
              IN  /\ found > max => reported = produced
                  /\ found <= max => reported = <<>>
                  /\ "ratchet_counts" \in DOMAIN TheResult
                  /\ id \in DOMAIN TheResult.ratchet_counts
                  /\ TheResult.ratchet_counts[id] = <<found, max>>

\* the rules of the scan that are RatchetRule instances
LoadedRatchetIds ==
    {rules[i][1].id : i \in {j \in 1..Len(rules) : "compiled_regex" \in DOMAIN rules[j][1]}}

\* C2: every ScanResult run_scan returns has a ratchet_counts map whose keys
\* are exactly the ids of the loaded ratchet rules (one with no match
\* included, with found = 0).
C2_RatchetCountsPerRatchetRule ==
    ScanOk =>
        /\ "ratchet_counts" \in DOMAIN TheResult
        /\ DOMAIN TheResult.ratchet_counts = LoadedRatchetIds

FirstDiscovery(path) ==
    CHOOSE i \in 1..Len(files) : files[i] = path /\ \A j \in 1..(i - 1) : files[j] # path

LastDiscovery(path) ==
    CHOOSE i \in 1..Len(files) : files[i] = path /\ \A j \in (i + 1)..Len(files) : files[j] # path

DeclaredIndex(id) == CHOOSE i \in 1..Len(rules) : rules[i][1].id = id

C10_FilesScannedCountsDistinctFiles ==
    ScanOk =>
        TheResult.files_scanned =
            Cardinality({files[read_ok[k]] : k \in 1..Len(read_ok)})

\* C10 amended: files_scanned is the number of entries of the enumerated file
\* list whose content was read, each entry counted once whatever the rules did
\* with it; an entry that cannot be read adds nothing and is no error: once
\* files are enumerated the scan ends in a result.
C10_FilesScannedCountsReadEntries ==
    /\ files_scanned = Len(read_ok)
    /\ \A k \in 1..Len(read_ok) :
          /\ read_ok[k] \in 1..fidx
          /\ \A m \in 1..Len(read_ok) : k < m => read_ok[k] < read_ok[m]
    /\ ScanOk => (TheResult.files_scanned = Len(read_ok) /\ fidx = Len(files))
    /\ (ScanDone /\ ~Unwrap(sresult).ok) => (files = <<>> /\ files_scanned = 0)

\* a directory and a file inside it as targets: the file is read and counted
\* twice, and an entry that could not be read is not counted
C10_Witness ==
    /\ ScanOk
    /\ Len(files) = 3
    /\ TheResult.files_scanned = 2
    /\ files[read_ok[1]] = files[read_ok[2]]
    /\ Len(rules) = 2
    /\ Len(TheResult.violations) > 0

-----------------------------------------------------------------------------
(* run_scan: file enumeration *)

\* some exclude pattern of the config matches the path
ExcludeMatches(rel) == \E k \in 1..Len(cfg.exclude) : GlobMatches(cfg.exclude[k], rel)

\* the path of a file below target, relative to target
RelativeTo(path, target) == SubSeq(path, Len(target) + 1, Len(path))

\* the files target t is to contribute: the target itself when it is a file,
\* else the files below it whose relative path no exclude pattern matches
ExpectedFrom(t) ==
    IF targets[t] \in AllFiles THEN {targets[t]}
    ELSE {f \in AllFiles : /\ IsPrefix(targets[t], f)
                           /\ ~ExcludeMatches(RelativeTo(f, targets[t]))}

EntriesFrom(t) == {k \in 1..Len(files) : forigin[k] = t}

\* C11: every walked target contributes exactly the entries it is to: a file
\* target itself, whatever the exclude patterns say, and for a directory target
\* each file below it whose path relative to the target matches no exclude
\* pattern, once; and no check_file call is made on an entry that came from a
\* directory target and whose relative path matches an exclude pattern.
C11_Enumeration ==
    /\ Len(forigin) = Len(files)
    /\ \A k \in 1..Len(forigin) : forigin[k] \in 1..tidx
    /\ \A t \in 1..tidx :
          /\ {files[k] : k \in EntriesFrom(t)} = ExpectedFrom(t)
          /\ Cardinality(EntriesFrom(t)) = Cardinality(ExpectedFrom(t))
    /\ \A c \in 1..Len(checks) :
          LET e == checks[c].entry
              target == targets[forigin[e]]
          IN  target \notin AllFiles => ~ExcludeMatches(RelativeTo(files[e], target))

\* "*.ts" excluded, a directory and a file inside it as targets: the walk of
\* the directory leaves a.ts and vendor/b.ts out, the file target a.ts is
\* enumerated and a rule is run on it
C11_Witness ==
    /\ ScanOk
    /\ targets = <<ProjDir, FileA>>
    /\ cfg.exclude = <<[kind |-> "ext", arg |-> "ts"]>>
    /\ files = <<FileA>>
    /\ forigin = <<2>>
    /\ \E c \in 1..Len(checks) : checks[c].entry = 1

-----------------------------------------------------------------------------
(* run_scan: failures *)

\* building declared rule i: the factory's outcome, and whether the glob of the
\* built rule compiles
RuleBuilds(i) == build_rule(cfg.rule[i].rule_type, to_rule_config(cfg.rule[i]))

RuleStepFails(i) ==
    \/ ~RuleBuilds(i).ok
    \/ /\ IsSome(file_glob(RuleBuilds(i).val))
       /\ ~GlobValid(Unwrap(file_glob(RuleBuilds(i).val)))

FailingRules == {i \in 1..Len(cfg.rule) : RuleStepFails(i)}
FirstFailingRule == CHOOSE i \in FailingRules : \A j \in FailingRules : i <= j

\* the step that fails first, in the order of the steps, or "none"
FirstFailingStep ==
    IF cfg.state = "unreadable" THEN "read"
    ELSE IF cfg.state = "malformed" THEN "parse"
    ELSE IF \E k \in 1..Len(cfg.exclude) : ~GlobValid(cfg.exclude[k]) THEN "exclude"
    ELSE IF FailingRules # {} THEN "rule"
    ELSE "none"

\* C12: a result exists only when run_scan is over; it is an error exactly when
\* some step fails, and then it is the error of the first failing step in the
\* order config read, config parse, exclude globs, rules in declared order
\* (construction, then that rule's glob); the rules before the failing one were
\* built and none after it; after a failure no target was walked, no file was
\* read and no check was run, and the error holds no ScanResult.
C12_FirstFailureIsTerminal ==
    /\ IsSome(sresult) = ScanDone
    /\ ScanDone =>
          LET r == Unwrap(sresult)
          IN  /\ r.ok = (FirstFailingStep = "none")
              /\ ~r.ok =>
                    /\ DOMAIN r = {"ok", "err"}
                    /\ tidx = 0 /\ files = <<>> /\ fidx = 0 /\ read_ok = <<>>
                    /\ checks = <<>> /\ violations = <<>> /\ files_scanned = 0
              /\ FirstFailingStep = "read" =>
                    r.err.kind = "ConfigRead" /\ rules = <<>> /\ exclude_set = None
              /\ FirstFailingStep = "parse" =>
                    r.err.kind = "ConfigParse" /\ rules = <<>> /\ exclude_set = None
              /\ FirstFailingStep = "exclude" =>
                    r.err.kind = "GlobParse" /\ rules = <<>>
              /\ FirstFailingStep = "rule" =>
                    /\ Len(rules) = FirstFailingRule - 1
                    /\ IF RuleBuilds(FirstFailingRule).ok
                       THEN r.err.kind = "GlobParse"
                       ELSE r.err = ScanError("RuleFactory", RuleBuilds(FirstFailingRule).err)
    /\ (tidx > 0 \/ fidx > 0 \/ checks # <<>>) =>
          (FirstFailingStep = "none" /\ Len(rules) = Len(cfg.rule))

\* the second declared rule is the first step to fail: the first rule was
\* built, and the file target was never enumerated
C12_Witness ==
    /\ ScanDone
    /\ ~Unwrap(sresult).ok
    /\ Unwrap(sresult).err.kind = "RuleFactory"
    /\ Len(cfg.rule) = 2
    /\ Len(rules) = 1
    /\ targets = <<FileA>>
    /\ files = <<>>

-----------------------------------------------------------------------------
(* build_rule: dispatch by type tag *)

\* the rule kinds the system provides
RuleKinds == {"tailwind-dark-mode", "tailwind-theme-tokens", "ratchet"}

\* what the constructor of the table's rule kind returns on the table's fields
ConstructorOutcome(t) ==
    IF t.rule_type = "ratchet"
    THEN RatchetNew([id |-> t.id, severity |-> t.severity, glob |-> t.glob,
                     pattern |-> t.pattern, max_count |-> t.max_count,
                     regex |-> FALSE])
    ELSE TailwindNew(t.rule_type, to_rule_config(t))

\* C13: every rule run_scan has built has the tag of a rule kind and is what
\* that kind's constructor returns; a scan that ended in a factory error ended
\* in BuildError(the constructor's error) when the tag of the failing table
\* names a rule kind (the ratchet included), and in UnknownRuleType(tag)
\* exactly when it names none.
C13_BuildRuleDispatch ==
    /\ \A i \in 1..Len(rules) :
          /\ cfg.rule[i].rule_type \in RuleKinds
          /\ ConstructorOutcome(cfg.rule[i]) = Ok(rules[i][1])
    /\ (ScanDone /\ ~Unwrap(sresult).ok /\ Unwrap(sresult).err.kind = "RuleFactory") =>
          LET t == cfg.rule[Len(rules) + 1]
              c == ConstructorOutcome(t)
              e == Unwrap(sresult).err.cause
          IN  IF t.rule_type \in RuleKinds
              THEN ~c.ok /\ e = BuildError(c.err)
              ELSE e = UnknownRuleType(t.rule_type)

-----------------------------------------------------------------------------
(* run_scan: the per-rule glob filter *)

\* rule i has no glob, or its glob matches the path or the bare file name
GlobAccepts(i, path) ==
    LET g == file_glob(rules[i][1])
    IN  \/ g = None
        \/ GlobMatches(Unwrap(g), path)
        \/ GlobMatches(Unwrap(g), <<path[Len(path)]>>)

\* the number of check_file calls of rule i on entry e
RunsOn(e, i) ==
    Cardinality({c \in 1..Len(checks) : checks[c] = [entry |-> e, rule |-> i]})

ReadEntries == {read_ok[k] : k \in 1..Len(read_ok)}

-----------------------------------------------------------------------------
(* parse_diff: what the index holds *)

TheIndex == Unwrap(dinfo).changed_lines

\* the new-side range a hunk stands for
HunkRange(h) ==
    IF h.newcount = None THEN RangeInclusive(h.new, h.new)
    ELSE RangeInclusive(h.new, h.new + Unwrap(h.newcount) - 1)

\* the path of the last new-path marker of the diff before entry k
Owner(k) ==
    LET ms == {j \in 1..(k - 1) : ddiff[j].kind = "marker"}
    IN  IF ms = {} THEN None
        ELSE Some(ddiff[CHOOSE j \in ms : \A i \in ms : i <= j].path)

MarkedPaths == {ddiff[k].path : k \in {j \in 1..Len(ddiff) : ddiff[j].kind = "marker"}}

\* the hunks of the diff that come under a marker of path and are no pure
\* deletion, in the order of the diff
HunksOf(path) ==
    SelectSeq([k \in 1..Len(ddiff) |-> k],
              LAMBDA k : /\ ddiff[k].kind = "hunk"
                         /\ Owner(k) = Some(path)
                         /\ ddiff[k].h.newcount # Some(0))

ExpectedRanges(path) ==
    [j \in 1..Len(HunksOf(path)) |-> HunkRange(ddiff[HunksOf(path)[j]].h)]

WithoutBody == SelectSeq(ddiff, LAMBDA e : e.kind # "body")

\* C17: the index parse_diff returns is the one it returns for the same diff
\* with every added or removed content line taken out.
C17_BodyLinesIgnored ==
    IsSome(dinfo) => Unwrap(dinfo) = parse_diff(RenderDiff(WithoutBody))

====
